---------------------------- MODULE Spec2Model ----------------------------
(***************************************************************************)
(* Task queue, worker, result cache and retrieval of maps4fsapi.           *)
(*                                                                         *)
(*   src/maps4fsapi/tasks.py            TasksQueue, task_generation        *)
(*   src/maps4fsapi/storage.py          CleanableTTLCache, Storage         *)
(*   src/maps4fsapi/components/task.py  get_task                           *)
(*   src/maps4fsapi/components/map.py   map_generation                     *)
(*   src/maps4fsapi/components/dtm.py   dtm_generation                     *)
(*                                                                         *)
(* Request handlers run on the server's thread pool, the worker on its own *)
(* daemon thread; nothing is locked, so a handler that reads the shared    *)
(* state several times is several steps here.  Time is a counter of ticks  *)
(* of 6 seconds (0.1 minute, the resolution of seconds_to_minutes).        *)
(***************************************************************************)
EXTENDS Integers, Sequences, FiniteSets, TLC

(***************************************************************************)
(* Bounds of the model.                                                    *)
(***************************************************************************)
\* number of add_task calls in one behaviour
MaxJobs == 2
\* last tick of the clock while the queue runs
MaxTime == 2
\* number of retrievals started in one behaviour
MaxRetrievals == 1
\* number of map_generation requests in one behaviour with concurrent requests
MaxRequests == 3
\* number of request threads that call TasksQueue()
MaxCallers == 3
\* last tick of the clock when Storage is driven directly
MaxStorageTime == 3

(***************************************************************************)
(* Program constants, scaled to the model's clock and key space.           *)
(***************************************************************************)
\* config.py:23 STORAGE_TTL = 3600 (seconds); here in ticks
STORAGE_TTL == 2
\* config.py:24 STORAGE_MAX_SIZE = 1000 (entries)
STORAGE_MAX_SIZE == 2
\* tasks.py:73 deque(maxlen=20)
HISTORY_MAXLEN == 20

None == "None"

(***************************************************************************)
(* Payloads (components/models.py MainSettingsPayload).  lat and lon are   *)
(* in tenths of a degree.  custom_dem_path stands for the custom-asset     *)
(* file references of the payload; output_size is <<>> (None) or <<n>>.    *)
(***************************************************************************)
Payload(lat, dtm_code, dtm_settings, custom_dem_path, size, output_size) ==
    [lat |-> lat, lon |-> 202, game_code |-> "fs25", size |-> size,
     output_size |-> output_size,
     dtm_code |-> dtm_code, dtm_settings |-> dtm_settings,
     custom_dem_path |-> custom_dem_path]

\* payloads that task_generation accepts, for two sessions
Payloads ==
    { Payload(452, "srtm30", None, None, 512, <<>>),
      Payload(461, "srtm30", None, None, 512, <<>>) }

\* and payloads that one of its checks refuses
AllPayloads ==
    Payloads \cup
    { Payload(452, "nosuch", None, None, 512, <<>>),
      Payload(452, "wcs", None, None, 512, <<>>),
      Payload(452, "wcs", "malformed", None, 512, <<>>),
      Payload(461, "srtm30", None, "missing.png", 512, <<>>),
      Payload(461, "srtm30", None, None, 8192, <<>>),
      Payload(461, "srtm30", None, None, 512, <<8192>>),
      Payload(452, "nosuch", None, None, 8192, <<>>) }


(***************************************************************************)
(* Session identity: get_session_name_from_payload passes (lat, lon) and   *)
(* game_code to get_session_name.  The names are those of the working      *)
(* directories under the data root.                                        *)
(***************************************************************************)
get_session_name(lat, lon, game_code) ==
    CASE lat = 452 /\ lon = 202 /\ game_code = "fs25" -> "fs25_45.2_20.2"
      [] lat = 461 /\ lon = 202 /\ game_code = "fs25" -> "fs25_46.1_20.2"
      [] OTHER -> "fs25_other"

get_session_name_from_payload(payload) ==
    get_session_name(payload.lat, payload.lon, payload.game_code)

\* the task ids a client can ask for
Sessions == {get_session_name_from_payload(p) : p \in AllPayloads}

\* dtm.py passes the job function where add_task takes the session name
FunctionObject == "<function task_generation>"

\* int(payload.lat): truncation of a coordinate kept in tenths of a degree
IntOf(tenths) == tenths \div 10

\* payload.game_code.upper()
Upper(game_code) ==
    CASE game_code = "fs25" -> "FS25"
      [] game_code = "fs22" -> "FS22"
      [] OTHER -> game_code

HistoryEntry(session_name, payload, status, timestamp) ==
    [session_name |-> session_name,
     coordinates |-> <<IntOf(payload.lat), IntOf(payload.lon)>>,
     game_code |-> Upper(payload.game_code),
     size |-> payload.size,
     status |-> status,
     timestamp |-> timestamp]

(***************************************************************************)
(* Result cache: CleanableTTLCache(maxsize, ttl) of storage.py over        *)
(* cachetools.TTLCache.  The cache is the list of its links, oldest first: *)
(* [key, value, expires].  An optional value is <<>> (None) or <<v>>.      *)
(* dirs is the set of working directories that exist on disk, each named   *)
(* by its session.                                                         *)
(***************************************************************************)
Nothing == <<>>
Some(v) == <<v>>

StorageEntry(success, description, directory, file_path, previews) ==
    [success |-> success, description |-> description, directory |-> directory,
     file_path |-> file_path, previews |-> previews]

IndexOf(c, key) ==
    IF \E i \in 1..Len(c) : c[i].key = key
    THEN CHOOSE i \in 1..Len(c) : c[i].key = key
    ELSE 0

RemoveAt(c, i) == SubSeq(c, 1, i - 1) \o SubSeq(c, i + 1, Len(c))

\* a __contains__ that does not look at the expiry of the link
CacheContainsLinked(c, key, t) == \E i \in 1..Len(c) : c[i].key = key

\* TTLCache.__contains__: the key has a link and the link has not expired
CacheContains(c, key, t) ==
    \E i \in 1..Len(c) : c[i].key = key /\ t < c[i].expires

\* Cache.get: the value of a live key, else the default (None)
CacheGet(c, key, t) ==
    IF CacheContains(c, key, t) THEN Some(c[IndexOf(c, key)].value) ELSE Nothing

\* TTLCache.expire: unlinks expired links from the head of the list with
\* Cache.__delitem__, which is not the subclass's __delitem__
RECURSIVE CacheExpire(_, _)
CacheExpire(c, t) ==
    IF c # <<>> /\ ~(t < c[1].expires) THEN CacheExpire(Tail(c), t) ELSE c

\* CleanableTTLCache.__delitem__: removes the entry's directory, then the key
CleanableDelItemDropsDirectory(c, d, key, t) ==
    [cache |-> RemoveAt(c, IndexOf(c, key)), dirs |-> d]

CleanableDelItem(c, d, key, t) ==
    LET entry == CacheGet(c, key, t)
        removed == IF entry # Nothing /\ entry[1].directory # None
                   THEN d \ {entry[1].directory}
                   ELSE d
    IN  [cache |-> RemoveAt(c, IndexOf(c, key)), dirs |-> removed]

\* Cache.pop(key, None): value and deletion for a live key, else the default
CachePop(c, d, key, t) ==
    IF CacheContains(c, key, t)
    THEN LET del == CleanableDelItem(c, d, key, t)
         IN  [cache |-> del.cache, dirs |-> del.dirs, value |-> CacheGet(c, key, t)]
    ELSE [cache |-> c, dirs |-> d, value |-> Nothing]

\* a popitem that pops the key of the newest link
CachePopItemNewest(c, d, t) ==
    LET live == CacheExpire(c, t)
    IN  CachePop(live, d, live[Len(live)].key, t)

\* TTLCache.popitem: expire, then pop the key of the oldest link
CachePopItem(c, d, t) ==
    LET live == CacheExpire(c, t)
    IN  CachePop(live, d, live[1].key, t)

\* Cache.__setitem__'s loop: while currsize + 1 > maxsize: popitem()
RECURSIVE CacheMakeRoom(_, _, _)
CacheMakeRoom(c, d, t) ==
    IF Len(c) + 1 > STORAGE_MAX_SIZE /\ c # <<>>
    THEN LET popped == CachePopItem(c, d, t)
         IN  CacheMakeRoom(popped.cache, popped.dirs, t)
    ELSE [cache |-> c, dirs |-> d]

\* TTLCache.__setitem__: expire, make room for a new key, store, and link
\* the key at the end of the list with a fresh expiry
CacheSetItem(c, d, key, value, t) ==
    LET live == CacheExpire(c, t)
        link == [key |-> key, value |-> value, expires |-> t + STORAGE_TTL]
    IN  IF IndexOf(live, key) # 0
        THEN [cache |-> Append(RemoveAt(live, IndexOf(live, key)), link), dirs |-> d]
        ELSE LET room == CacheMakeRoom(live, d, t)
             IN  [cache |-> Append(room.cache, link), dirs |-> room.dirs]

\* Storage.add_entry
add_entry(c, d, key, entry, t) == CacheSetItem(c, d, key, entry, t)

\* Storage.get_entry
get_entry(c, key, t) == CacheGet(c, key, t)

\* Storage.pop_entry
pop_entry(c, d, key, t) == CachePop(c, d, key, t)

\* a remove_entry that drops the oldest link when the key is not in the cache
remove_entry_drops_oldest(c, d, key, t) ==
    IF CacheContains(c, key, t)
    THEN LET popped == pop_entry(c, d, key, t)
         IN  [cache |-> popped.cache, dirs |-> popped.dirs]
    ELSE [cache |-> IF c # <<>> THEN Tail(c) ELSE c, dirs |-> d]

\* a remove_entry that leaves the cache as it is
remove_entry_keeps_entry(c, d, key, t) == [cache |-> c, dirs |-> d]

\* Storage.remove_entry
remove_entry(c, d, key, t) ==
    IF CacheContains(c, key, t)
    THEN LET popped == pop_entry(c, d, key, t)
         IN  [cache |-> popped.cache, dirs |-> popped.dirs]
    ELSE [cache |-> c, dirs |-> d]

(***************************************************************************)
(* task_generation (tasks.py 353-634) as map_generation calls it:          *)
(* components None, assets None, include_all True.  Everything between     *)
(* lines 375 and 617 is inside try/except Exception; the entry is built in *)
(* the finally block.  gen is what the generator does when it is run:      *)
(* "ok" or "raises".                                                       *)
(***************************************************************************)
\* mfs.DTMProvider.get_provider_by_code knows these codes
DTMProviders == {"srtm30", "wcs"}
\* providers whose settings_required() is true
SettingsRequired == {"wcs"}
\* files present under the defaults directories
AssetFiles == {"dem.png"}
\* config.PUBLIC_MAX_MAP_SIZE (imported at tasks.py:18)
PUBLIC_MAX_MAP_SIZE == 4096

ArchivePath(session_name) == <<session_name, ".zip">>
NonePath == <<>>

\* a task_generation without the size checks of public mode
ExecutionErrorWithoutSizeChecks(payload, public, gen) ==
    CASE payload.dtm_code \notin DTMProviders -> "provider"
      [] payload.dtm_code \in SettingsRequired /\ payload.dtm_settings = None
            -> "settings_missing"
      [] payload.dtm_code \in SettingsRequired /\ payload.dtm_settings = "malformed"
            -> "settings_invalid"
      [] payload.custom_dem_path # None /\ payload.custom_dem_path \notin AssetFiles
            -> "custom_dem"
      [] gen = "raises" -> "generator"
      [] OTHER -> "none"

\* the first check of task_generation that raises for this payload, in the
\* order of the code, or "none"
ExecutionError(payload, public, gen) ==
    CASE payload.dtm_code \notin DTMProviders -> "provider"
      [] payload.dtm_code \in SettingsRequired /\ payload.dtm_settings = None
            -> "settings_missing"
      [] payload.dtm_code \in SettingsRequired /\ payload.dtm_settings = "malformed"
            -> "settings_invalid"
      [] payload.custom_dem_path # None /\ payload.custom_dem_path \notin AssetFiles
            -> "custom_dem"
      [] public /\ payload.size > PUBLIC_MAX_MAP_SIZE -> "size"
      [] public /\ payload.output_size # <<>>
                /\ payload.output_size[1] > PUBLIC_MAX_MAP_SIZE -> "output_size"
      [] gen = "raises" -> "generator"
      [] OTHER -> "none"

\* f"Task failed with error: {e}"
FailureDescription(payload, error) ==
    CASE error = "provider"
            -> <<"Task failed with error:", "DTM provider with code",
                 payload.dtm_code, "not found.">>
      [] error = "settings_missing"
            -> <<"Task failed with error:",
                 "Specified DTM Provider requires additional settings">>
      [] error = "settings_invalid"
            -> <<"Task failed with error:", "Invalid DTM provider settings">>
      [] error = "custom_dem"
            -> <<"Task failed with error:", "Invalid custom DEM path",
                 payload.custom_dem_path>>
      [] error = "size"
            -> <<"Task failed with error:", "Map size exceeds the maximum",
                 "PUBLIC_MAX_MAP_SIZE">>
      [] error = "output_size"
            -> <<"Task failed with error:", "Output size exceeds the maximum",
                 "PUBLIC_MAX_MAP_SIZE">>
      [] OTHER -> <<"Task failed with error:", "generator">>

\* os.makedirs(task_directory) at line 437 is reached once the provider and
\* its settings are accepted
ReachesMakedirs(error) ==
    error \notin {"provider", "settings_missing", "settings_invalid"}

\* a task_generation that runs the generator whatever the payload
ReachesGenerateAlways(error) == TRUE

\* mp.generate() at line 579 is reached when nothing before it raised
ReachesGenerate(error) == error \in {"none", "generator"}

\* the StorageEntry of lines 625-631 and the return value of line 634
task_generation_reraises(session_name, payload, public, gen) ==
    LET error == ExecutionError(payload, public, gen)
    IN  [raised |-> error # "none",
         success |-> error = "none",
         entry |-> StorageEntry(TRUE, <<"Task completed successfully.">>,
                                session_name, ArchivePath(session_name),
                                <<session_name>>),
         makedirs |-> ReachesMakedirs(error),
         generate |-> ReachesGenerate(error)]

task_generation(session_name, payload, public, gen) ==
    LET error == ExecutionError(payload, public, gen)
        task_directory == IF ReachesMakedirs(error) THEN session_name ELSE None
    IN  [raised |-> FALSE,
         success |-> error = "none",
         entry |-> IF error = "none"
                   THEN StorageEntry(TRUE, <<"Task completed successfully.">>,
                                     task_directory, ArchivePath(session_name),
                                     <<session_name>>)
                   ELSE StorageEntry(FALSE, FailureDescription(payload, error),
                                     task_directory, NonePath, <<>>),
         makedirs |-> ReachesMakedirs(error),
         generate |-> ReachesGenerate(error)]

(***************************************************************************)
(* State.                                                                  *)
(***************************************************************************)
VARIABLES
    \* TasksQueue (tasks.py 71-80)
    tasks, history, active_sessions, active_sessions_info,
    processing_now, processing_now_info,
    completed_tasks, failed_tasks, processing_time,
    \* the worker thread: its place in _worker and its locals
    wpc, wjob, history_status, start_time, res,
    \* Storage().cache, the directories and archives on disk, the clock
    cache, dirs, files, now,
    \* config.is_public
    is_public,
    \* the map_generation requests that are past the limit check of map.py
    \* 34-40 and have not yet called add_task: their payloads
    passed,
    \* Singleton._instances[TasksQueue] (config.py 147): 0 while the class is
    \* not in the dict, else the instance; the number of TasksQueue instances
    \* constructed, each of which started a worker thread (tasks.py 81-82);
    \* and the threads that call TasksQueue(): place, instance made, result
    instances, workers, callers,
    \* the last call of Storage's interface from outside the queue: its
    \* name, key, entry argument and return value, the time of the call and
    \* the keys that were in the cache when it was made, oldest first
    sres,
    \* the answer of the last admission request
    aresp,
    \* one get_task request: its place, payload.task_id, endpoint, answer
    rpc, rkey, rendpoint, ranswer, nretr,
    \* bookkeeping per add_task call, in call order: what happened to the job
    jlog

qvars == <<tasks, history, active_sessions, active_sessions_info,
           processing_now, processing_now_info,
           completed_tasks, failed_tasks, processing_time>>
wvars == <<wpc, wjob, history_status, start_time, res>>
svars == <<cache, dirs, files>>
rvars == <<rpc, rkey, rendpoint, ranswer, nretr>>
cvars == <<instances, workers, callers>>
vars == <<qvars, wvars, svars, now, is_public, passed, cvars, sres, aresp, rvars, jlog>>

\* the request threads
Callers == 1..MaxCallers

\* every thread's call of TasksQueue() has returned the one instance
Constructed == [t \in Callers |-> [pc |-> "done", made |-> 0, got |-> 1]]

NoJob == [id |-> 0, session_name |-> None, func |-> None,
          payload |-> Payload(0, None, None, None, 0, <<>>)]

\* an answer of get_task: the task id, the HTTP status and the detail, and
\* what held of the session when is_processing was read (line 70) and when
\* the answer was given
NoAnswer == [task_id |-> None, status_code |-> 0, detail |-> <<>>,
             executing_at_check |-> FALSE, executing |-> FALSE, live |-> FALSE]

\* TasksQueue.is_in_queue
is_in_queue(session_name) == session_name \in active_sessions

\* TasksQueue.is_processing
is_processing(session_name) == session_name = processing_now

\* TasksQueue.get_active_tasks_count
get_active_tasks_count == Cardinality(active_sessions)

Init ==
    /\ tasks = <<>>
    /\ history = <<>>
    /\ active_sessions = {}
    /\ active_sessions_info = <<>>
    /\ processing_now = None
    /\ processing_now_info = Nothing
    /\ completed_tasks = 0
    /\ failed_tasks = 0
    /\ processing_time = 0
    /\ wpc = "get"
    /\ wjob = NoJob
    /\ history_status = None
    /\ start_time = 0
    /\ res = None
    /\ cache = <<>>
    /\ dirs = {}
    /\ files = {}
    /\ now = 0
    /\ is_public \in BOOLEAN
    /\ passed = <<>>
    /\ instances = 1 /\ workers = 1 /\ callers = Constructed
    /\ sres = [op |-> None, key |-> None, arg |-> Nothing, value |-> Nothing,
               at |-> 0, before |-> <<>>]
    /\ aresp = None
    /\ rpc = "idle"
    /\ rkey = None
    /\ rendpoint = None
    /\ ranswer = NoAnswer
    /\ nretr = 0
    /\ jlog = <<>>

(***************************************************************************)
(* Admission.  add_task (tasks.py 84-114) runs in the request thread.      *)
(***************************************************************************)
\* a job for this session is waiting in the queue or held by the worker
InFlight(session_name) ==
    \/ \E i \in 1..Len(tasks) : tasks[i].session_name = session_name
    \/ wpc \notin {"get", "dead"} /\ wjob.session_name = session_name

\* the latest job of this session that is in flight, or 0
InFlightJob(session_name) ==
    LET ids == {tasks[i].id : i \in {k \in 1..Len(tasks) :
                                       tasks[k].session_name = session_name}}
               \cup (IF wpc \notin {"get", "dead"} /\ wjob.session_name = session_name
                     THEN {wjob.id} ELSE {})
    IN  IF ids = {} THEN 0 ELSE CHOOSE i \in ids : \A k \in ids : k <= i

\* a new line of the bookkeeping: the job, the job in flight for the same
\* session when it was added, and nothing done yet
NewLog(session_name, func, payload) ==
    [session_name |-> session_name, func |-> func, payload |-> payload,
     duplicate_of |-> InFlightJob(session_name),
     gets |-> 0, gen |-> None, runs |-> 0, generated |-> FALSE, writes |-> 0,
     key |-> None,
     entry |-> Nothing, terminal |-> 0, elapsed |-> 0]

add_task_forgets_session(session_name, func, payload) ==
    /\ active_sessions' = active_sessions
    /\ active_sessions_info' =
          Append(active_sessions_info,
                 HistoryEntry(session_name, payload, "Added to queue", now))
    /\ tasks' = Append(tasks, [id |-> Len(jlog) + 1, session_name |-> session_name,
                               func |-> func, payload |-> payload])
    /\ jlog' = Append(jlog, NewLog(session_name, func, payload))

add_task(session_name, func, payload) ==
    /\ active_sessions' = active_sessions \cup {session_name}
    /\ active_sessions_info' =
          Append(active_sessions_info,
                 HistoryEntry(session_name, payload, "Added to queue", now))
    /\ tasks' = Append(tasks, [id |-> Len(jlog) + 1, session_name |-> session_name,
                               func |-> func, payload |-> payload])
    /\ jlog' = Append(jlog, NewLog(session_name, func, payload))

\* config.PUBLIC_QUEUE_LIMIT (imported at components/map.py:10)
PUBLIC_QUEUE_LIMIT == 2

\* the admission request is inside add_task, past tasks.put (line 107) and
\* before the return; one admission request runs at a time
InAddTask == "add_task"

\* a map_generation that answers 429 at the limit and queues the job all the same
MapGenerationRejectedAndQueued ==
    /\ aresp # InAddTask
    /\ is_public /\ get_active_tasks_count >= PUBLIC_QUEUE_LIMIT
    /\ Len(jlog) <= MaxJobs
    /\ \E payload \in Payloads :
          add_task(get_session_name_from_payload(payload), "task_generation", payload)
    /\ aresp' = "429"
    /\ UNCHANGED <<history, processing_now, processing_now_info, completed_tasks,
                   failed_tasks, processing_time, wvars, svars, now, is_public, passed, cvars, sres, rvars>>

\* map_generation (components/map.py 34-58), the limit reached: HTTP 429
MapGenerationRejected ==
    /\ aresp # InAddTask
    /\ is_public /\ get_active_tasks_count >= PUBLIC_QUEUE_LIMIT
    /\ aresp' = "429"
    /\ UNCHANGED <<qvars, wvars, svars, now, is_public, passed, cvars, sres, rvars, jlog>>

\* a map_generation whose add_task waits until the worker is not inside a
\* job function
MapGenerationWaitsForWorker(payload) ==
    /\ wpc # "func"
    /\ aresp # InAddTask
    /\ Len(jlog) < MaxJobs
    /\ ~(is_public /\ get_active_tasks_count >= PUBLIC_QUEUE_LIMIT)
    /\ add_task(get_session_name_from_payload(payload), "task_generation", payload)
    /\ aresp' = InAddTask
    /\ UNCHANGED <<history, processing_now, processing_now_info, completed_tasks,
                   failed_tasks, processing_time, wvars, svars, now, is_public, passed, cvars, sres, rvars>>

\* map_generation (components/map.py 34-52), the job accepted: add_task as
\* far as tasks.put, from where on the worker can take the job
MapGeneration(payload) ==
    /\ aresp # InAddTask
    /\ Len(jlog) < MaxJobs
    /\ ~(is_public /\ get_active_tasks_count >= PUBLIC_QUEUE_LIMIT)
    /\ add_task(get_session_name_from_payload(payload), "task_generation", payload)
    /\ aresp' = InAddTask
    /\ UNCHANGED <<history, processing_now, processing_now_info, completed_tasks,
                   failed_tasks, processing_time, wvars, svars, now, is_public, passed, cvars, sres, rvars>>

\* dtm_generation (components/dtm.py 64-72) calls
\* add_task(task_generation, task_id, payload, ...): the session name is the
\* function, the job function is the task id, a string.  The job is put on
\* the queue (line 107)
DtmGeneration(payload) ==
    /\ aresp # InAddTask
    /\ Len(jlog) < MaxJobs
    /\ add_task(FunctionObject, get_session_name_from_payload(payload), payload)
    /\ aresp' = InAddTask
    /\ UNCHANGED <<history, processing_now, processing_now_info, completed_tasks,
                   failed_tasks, processing_time, wvars, svars, now, is_public, passed, cvars, sres, rvars>>

\* texture_generation (components/texture.py 26-39) calls
\* add_task(task_id, task_generation, task_id, payload, ...): the payload
\* argument is the task id, a string.  Line 96 adds the session, line 99
\* raises AttributeError on payload.lat, nothing is put on the queue, HTTP 500
TextureGeneration(payload) ==
    /\ aresp # InAddTask
    /\ active_sessions' = active_sessions \cup {get_session_name_from_payload(payload)}
    /\ aresp' = "500"
    /\ UNCHANGED <<tasks, history, active_sessions_info, processing_now,
                   processing_now_info, completed_tasks, failed_tasks, processing_time,
                   wvars, svars, now, is_public, passed, cvars, sres, rvars, jlog>>

\* the job that the add_task call in progress, or else the last one, added
AddedJob == Len(jlog)

\* add_task, lines 108-114, and the handler's return (map.py 54-58): the log
\* line evaluates func.__name__, which raises for a func that is a string,
\* HTTP 500; otherwise the handler answers with the task id
AddTaskReturn ==
    /\ aresp = InAddTask
    /\ aresp' = IF jlog[AddedJob].func = "task_generation" THEN "200" ELSE "500"
    /\ UNCHANGED <<qvars, wvars, svars, now, is_public, passed, cvars, sres, rvars, jlog>>

(***************************************************************************)
(* The worker thread, TasksQueue._worker (tasks.py 254-325).               *)
(***************************************************************************)
\* a worker that takes the next job before the finally clause of the current
\* job has come to its end
WorkerGetBeforeFinallyEnds ==
    /\ wpc \in {"get", "record"} /\ tasks # <<>>
    /\ wjob' = Head(tasks)
    /\ tasks' = Tail(tasks)
    /\ jlog' = [jlog EXCEPT ![Head(tasks).id].gets = @ + 1]
    /\ wpc' = "mark"
    /\ UNCHANGED <<history, active_sessions, active_sessions_info, processing_now,
                   processing_now_info, completed_tasks, failed_tasks, processing_time,
                   history_status, start_time, res, svars, now, is_public, passed, cvars, sres, aresp,
                   rvars>>

\* a worker that takes the job that was put on the queue last
WorkerGetNewest ==
    /\ wpc = "get" /\ tasks # <<>>
    /\ wjob' = tasks[Len(tasks)]
    /\ tasks' = SubSeq(tasks, 1, Len(tasks) - 1)
    /\ jlog' = [jlog EXCEPT ![tasks[Len(tasks)].id].gets = @ + 1]
    /\ wpc' = "mark"
    /\ UNCHANGED <<history, active_sessions, active_sessions_info, processing_now,
                   processing_now_info, completed_tasks, failed_tasks, processing_time,
                   history_status, start_time, res, svars, now, is_public, passed, cvars, sres, aresp,
                   rvars>>

\* line 256: self.tasks.get() blocks while the queue is empty
WorkerGet ==
    /\ wpc = "get" /\ tasks # <<>>
    /\ wjob' = Head(tasks)
    /\ tasks' = Tail(tasks)
    /\ jlog' = [jlog EXCEPT ![Head(tasks).id].gets = @ + 1]
    /\ wpc' = "mark"
    /\ UNCHANGED <<history, active_sessions, active_sessions_info, processing_now,
                   processing_now_info, completed_tasks, failed_tasks, processing_time,
                   history_status, start_time, res, svars, now, is_public, passed, cvars, sres, aresp,
                   rvars>>

\* lines 257-265
WorkerMark ==
    /\ wpc = "mark"
    /\ processing_now' = wjob.session_name
    /\ processing_now_info' =
          Some(HistoryEntry(wjob.session_name, wjob.payload, "Started processing", now))
    /\ wpc' = "unqueue"
    /\ UNCHANGED <<tasks, history, active_sessions, active_sessions_info,
                   completed_tasks, failed_tasks, processing_time,
                   wjob, history_status, start_time, res, svars, now, is_public, passed, cvars, sres,
                   aresp, rvars, jlog>>

\* TasksQueue.remove_active_session: the first info entry of the session
remove_active_session(info, session_name) ==
    IF \E i \in 1..Len(info) : info[i].session_name = session_name
    THEN RemoveAt(info, CHOOSE i \in 1..Len(info) :
                          /\ info[i].session_name = session_name
                          /\ \A k \in 1..(i - 1) : info[k].session_name # session_name)
    ELSE info

\* lines 266-269
WorkerUnqueue ==
    /\ wpc = "unqueue"
    /\ active_sessions_info' = remove_active_session(active_sessions_info,
                                                     wjob.session_name)
    /\ history_status' = "Failed"
    /\ start_time' = now
    /\ wpc' = "func"
    /\ UNCHANGED <<tasks, history, active_sessions, processing_now,
                   processing_now_info, completed_tasks, failed_tasks, processing_time,
                   wjob, res, svars, now, is_public, passed, cvars, sres, aresp, rvars, jlog>>

\* the bookkeeping of one run of a job function: what the generator does when
\* it is run, whether the run invoked it, and the entry the run stored under
\* key, if any
LogRun(log, id, gen, generated, key, written) ==
    [log EXCEPT ![id] = [@ EXCEPT !.gen = gen, !.runs = @ + 1,
                                  !.generated = generated,
                                  !.writes = @ + Len(written),
                                  !.key = IF written # Nothing THEN key ELSE @,
                                  !.entry = IF written # Nothing THEN written ELSE @]]

\* line 270 with func = task_generation: the job runs, stores its entry
\* (line 633) and returns success (line 634)
WorkerCallTaskGeneration ==
    /\ wpc = "func" /\ wjob.func = "task_generation"
    /\ \E gen \in {"ok", "raises"} :
          LET r == task_generation(wjob.session_name, wjob.payload, is_public, gen)
              made == IF r.makedirs THEN dirs \cup {wjob.session_name} ELSE dirs
              stored == add_entry(cache, made, wjob.session_name, r.entry, now)
          IN  /\ IF r.raised
                 THEN /\ cache' = cache
                      /\ dirs' = made
                      /\ res' = "raised"
                      /\ jlog' = LogRun(jlog, wjob.id, gen, r.generate, None, Nothing)
                 ELSE /\ cache' = stored.cache
                      /\ dirs' = stored.dirs
                      /\ res' = IF r.success THEN "truthy" ELSE "falsy"
                      /\ jlog' = LogRun(jlog, wjob.id, gen, r.generate, wjob.session_name,
                                         Some(r.entry))
              /\ files' = IF r.success THEN files \cup {ArchivePath(wjob.session_name)}
                          ELSE files
    /\ wpc' = "after"
    /\ UNCHANGED <<qvars, wjob, history_status, start_time, now, is_public, passed, cvars, sres, aresp,
                   rvars>>

\* line 270 with func a string: the call raises TypeError
WorkerCallNotCallable ==
    /\ wpc = "func" /\ wjob.func # "task_generation"
    /\ res' = "raised"
    /\ jlog' = LogRun(jlog, wjob.id, None, FALSE, None, Nothing)
    /\ wpc' = "after"
    /\ UNCHANGED <<qvars, wjob, history_status, start_time, svars, now, is_public, passed, cvars, sres,
                   aresp, rvars>>

\* lines 271-299 of a worker whose raise at line 299 leaves the loop without
\* the finally clause of lines 300-325
WorkerAfterWithoutFinally ==
    /\ wpc = "after"
    /\ history_status' = IF res = "truthy" THEN "Completed" ELSE "Failed"
    /\ completed_tasks' = IF res = "truthy" THEN completed_tasks + 1 ELSE completed_tasks
    /\ failed_tasks' = IF res = "truthy" THEN failed_tasks ELSE failed_tasks + 1
    /\ wpc' = IF res = "raised" THEN "dead" ELSE "discard"
    /\ UNCHANGED <<tasks, history, active_sessions, active_sessions_info,
                   processing_now, processing_now_info, processing_time,
                   wjob, start_time, res, svars, now, is_public, passed, cvars, sres, aresp, rvars, jlog>>

\* lines 271-299: the counters and the status of the history entry
WorkerAfter ==
    /\ wpc = "after"
    /\ history_status' = IF res = "truthy" THEN "Completed" ELSE "Failed"
    /\ completed_tasks' = IF res = "truthy" THEN completed_tasks + 1 ELSE completed_tasks
    /\ failed_tasks' = IF res = "truthy" THEN failed_tasks ELSE failed_tasks + 1
    /\ wpc' = "discard"
    /\ UNCHANGED <<tasks, history, active_sessions, active_sessions_info,
                   processing_now, processing_now_info, processing_time,
                   wjob, start_time, res, svars, now, is_public, passed, cvars, sres, aresp, rvars, jlog>>

\* a finally clause without active_sessions.discard
WorkerDiscardKeepsSession ==
    /\ wpc = "discard"
    /\ wpc' = "clear"
    /\ UNCHANGED <<tasks, history, active_sessions, active_sessions_info, processing_now,
                   processing_now_info, completed_tasks, failed_tasks, processing_time,
                   wjob, history_status, start_time, res, svars, now, is_public, passed, cvars, sres,
                   aresp, rvars, jlog>>

\* finally, lines 302-303
WorkerDiscard ==
    /\ wpc = "discard"
    /\ active_sessions' = active_sessions \ {wjob.session_name}
    /\ wpc' = "clear"
    /\ UNCHANGED <<tasks, history, active_sessions_info, processing_now,
                   processing_now_info, completed_tasks, failed_tasks, processing_time,
                   wjob, history_status, start_time, res, svars, now, is_public, passed, cvars, sres,
                   aresp, rvars, jlog>>

\* finally, lines 304-305
WorkerClear ==
    /\ wpc = "clear"
    /\ processing_now' = None
    /\ processing_now_info' = Nothing
    /\ wpc' = "record"
    /\ UNCHANGED <<tasks, history, active_sessions, active_sessions_info,
                   completed_tasks, failed_tasks, processing_time,
                   wjob, history_status, start_time, res, svars, now, is_public, passed, cvars, sres,
                   aresp, rvars, jlog>>

\* a deque that, when full, drops its newest entry to make room
DequeAppendEvictsNewest(d, x) ==
    IF Len(d) >= HISTORY_MAXLEN THEN Append(SubSeq(d, 1, Len(d) - 1), x) ELSE Append(d, x)

\* deque(maxlen=HISTORY_MAXLEN).append
DequeAppend(d, x) ==
    IF Len(d) >= HISTORY_MAXLEN THEN Append(Tail(d), x) ELSE Append(d, x)

\* TasksQueue.seconds_to_minutes, round(seconds / 60, 1), on a number of
\* ticks of 6 seconds; the result in tenths of a minute
seconds_to_minutes(ticks) == (6 * ticks * 10 + 30) \div 60

\* a finally clause that puts a job that failed back on the queue
WorkerRecordRequeues ==
    /\ wpc = "record"
    /\ history' = DequeAppend(history, HistoryEntry(wjob.session_name, wjob.payload,
                                                    history_status, now))
    /\ processing_time' = processing_time + seconds_to_minutes(now - start_time)
    /\ jlog' = [jlog EXCEPT ![wjob.id].terminal = @ + 1,
                            ![wjob.id].elapsed = seconds_to_minutes(now - start_time)]
    /\ tasks' = IF history_status = "Failed" THEN Append(tasks, wjob) ELSE tasks
    /\ wpc' = IF res = "raised" THEN "dead" ELSE "get"
    /\ UNCHANGED <<active_sessions, active_sessions_info, processing_now,
                   processing_now_info, completed_tasks, failed_tasks,
                   wjob, history_status, start_time, res, svars, now, is_public, passed, cvars, sres,
                   aresp, rvars>>

\* finally, lines 307-325; a raised exception then leaves the loop (line 299)
\* and the thread ends, otherwise the loop goes back to line 256
WorkerRecord ==
    /\ wpc = "record"
    /\ history' = DequeAppend(history, HistoryEntry(wjob.session_name, wjob.payload,
                                                    history_status, now))
    /\ processing_time' = processing_time + seconds_to_minutes(now - start_time)
    /\ jlog' = [jlog EXCEPT ![wjob.id].terminal = @ + 1,
                            ![wjob.id].elapsed = seconds_to_minutes(now - start_time)]
    /\ wpc' = IF res = "raised" THEN "dead" ELSE "get"
    /\ UNCHANGED <<tasks, active_sessions, active_sessions_info, processing_now,
                   processing_now_info, completed_tasks, failed_tasks,
                   wjob, history_status, start_time, res, svars, now, is_public, passed, cvars, sres,
                   aresp, rvars>>

(***************************************************************************)
(* Retrieval, get_task (components/task.py 48-154), in a request thread.   *)
(* The three reads of shared state (lines 67, 70, 76) are three steps.     *)
(***************************************************************************)
\* the job function of a job of this session is running (line 270)
Executing(session_name) ==
    wpc = "func" /\ wjob.session_name = session_name

Answer(task_id, status_code, detail) ==
    [task_id |-> task_id, status_code |-> status_code, detail |-> detail,
     executing_at_check |-> ranswer.executing_at_check,
     executing |-> Executing(task_id),
     live |-> InFlight(task_id) \/ CacheContains(cache, task_id, now)]

Endpoints == {"status", "get", "previews"}

\* line 120: the previews of the entry that are files; the previews of a job
\* are in its task directory and are named here by that directory
ValidPreviews(entry) ==
    {i \in 1..Len(entry.previews) : entry.previews[i] \in dirs}

\* a get_task that answers a failed entry as it answers no entry
EntryAnswerNotFound(task_id, endpoint, entry) ==
    IF ~entry.success THEN Answer(task_id, 404, <<"not found">>)
    ELSE Answer(task_id, 200, <<"FileResponse">>)

\* a get_task whose 'status' endpoint hands out the file as 'get' does
EntryAnswerStatusConsumes(task_id, endpoint, entry) ==
    CASE ~entry.success -> Answer(task_id, 400, entry.description)
      [] entry.file_path = NonePath -> Answer(task_id, 404, <<"No file path found">>)
      [] entry.file_path \notin files -> Answer(task_id, 404, <<"File not found">>)
      [] endpoint = "previews" /\ ValidPreviews(entry) = {}
            -> Answer(task_id, 404, <<"No valid preview files found">>)
      [] endpoint = "previews" -> Answer(task_id, 200, <<"previews">>)
      [] OTHER -> Answer(task_id, 200, <<"FileResponse">>)

\* lines 89-154: the answer for an entry that was found
EntryAnswer(task_id, endpoint, entry) ==
    CASE ~entry.success -> Answer(task_id, 400, entry.description)
      [] entry.file_path = NonePath -> Answer(task_id, 404, <<"No file path found">>)
      [] entry.file_path \notin files -> Answer(task_id, 404, <<"File not found">>)
      [] endpoint = "status" -> Answer(task_id, 200, <<"Task completed successfully.">>)
      [] endpoint = "previews" /\ ValidPreviews(entry) = {}
            -> Answer(task_id, 404, <<"No valid preview files found">>)
      [] endpoint = "previews" -> Answer(task_id, 200, <<"previews">>)
      [] OTHER -> Answer(task_id, 200, <<"FileResponse">>)

\* line 67, and lines 89-154 when the entry is found
RetrievalGetEntry ==
    /\ rpc = "idle" /\ nretr < MaxRetrievals
    /\ \E task_id \in Sessions, endpoint \in Endpoints :
          LET entry == get_entry(cache, task_id, now)
          IN  /\ rkey' = task_id
              /\ rendpoint' = endpoint
              /\ IF entry = Nothing
                 THEN /\ rpc' = "is_processing"
                      /\ ranswer' = NoAnswer
                 ELSE /\ ranswer' = EntryAnswer(task_id, endpoint, entry[1])
                      /\ rpc' = IF ranswer'.detail = <<"FileResponse">>
                                THEN "background" ELSE "idle"
    /\ nretr' = nretr + 1
    /\ UNCHANGED <<qvars, wvars, svars, now, is_public, passed, cvars, sres, aresp, jlog>>

\* lines 70-75
RetrievalIsProcessing ==
    /\ rpc = "is_processing"
    /\ IF is_processing(rkey)
       THEN /\ ranswer' = Answer(rkey, 202, <<"is currently being processed">>)
            /\ rpc' = "idle"
       ELSE /\ ranswer' = [ranswer EXCEPT !.executing_at_check = Executing(rkey)]
            /\ rpc' = "is_in_queue"
    /\ UNCHANGED <<qvars, wvars, svars, now, is_public, passed, cvars, sres, aresp, rkey, rendpoint,
                   nretr, jlog>>

\* lines 76-87
RetrievalIsInQueue ==
    /\ rpc = "is_in_queue"
    /\ ranswer' = IF is_in_queue(rkey)
                  THEN Answer(rkey, 204, <<"is still in the queue">>)
                  ELSE Answer(rkey, 404, <<"not found">>)
    /\ rpc' = "idle"
    /\ UNCHANGED <<qvars, wvars, svars, now, is_public, passed, cvars, sres, aresp, rkey, rendpoint,
                   nretr, jlog>>

\* line 147: Storage().remove_entry runs as a background task of the request
RetrievalBackground ==
    /\ rpc = "background"
    /\ LET removed == remove_entry(cache, dirs, rkey, now)
       IN  /\ cache' = removed.cache
           /\ dirs' = removed.dirs
    /\ rpc' = "idle"
    /\ UNCHANGED <<qvars, wvars, files, now, is_public, passed, cvars, sres, aresp, rkey, rendpoint,
                   ranswer, nretr, jlog>>

\* the clock
Tick(last) ==
    /\ now < last
    /\ now' = now + 1
    /\ UNCHANGED <<qvars, wvars, svars, is_public, passed, cvars, sres, aresp, rvars, jlog>>

Next ==
    \/ MapGenerationRejected
    \/ \E payload \in Payloads : MapGeneration(payload)
    \/ \E payload \in Payloads : DtmGeneration(payload)
    \/ AddTaskReturn
    \/ WorkerGet
    \/ WorkerMark
    \/ WorkerUnqueue
    \/ WorkerCallTaskGeneration
    \/ WorkerCallNotCallable
    \/ WorkerAfter
    \/ WorkerDiscard
    \/ WorkerClear
    \/ WorkerRecord
    \/ RetrievalGetEntry
    \/ RetrievalIsProcessing
    \/ RetrievalIsInQueue
    \/ RetrievalBackground
    \/ Tick(MaxTime)

Spec == Init /\ [][Next]_vars

(***************************************************************************)
(* The queue and the worker alone, with every kind of payload.             *)
(***************************************************************************)
NextExec ==
    \/ MapGenerationRejected
    \/ \E payload \in AllPayloads : MapGeneration(payload)
    \/ AddTaskReturn
    \/ WorkerGet
    \/ WorkerMark
    \/ WorkerUnqueue
    \/ WorkerCallTaskGeneration
    \/ WorkerAfter
    \/ WorkerDiscard
    \/ WorkerClear
    \/ WorkerRecord

SpecExec == Init /\ [][NextExec]_vars

(***************************************************************************)
(* The same queue and worker, started in a state in which the worker has   *)
(* already served a number of jobs: each of them was refused by the        *)
(* provider check of task_generation (lines 407-410), so it made no        *)
(* directory, and its failed cache entry has since expired.  The entries   *)
(* of these jobs fill the history up to, or one short of, its maxlen.      *)
(***************************************************************************)
\* the terminal entry of the i-th of served earlier jobs (lines 307-314);
\* the jobs ended one tick apart, the last of them one tick before tick 0
EarlierEntry(i, served) ==
    HistoryEntry("fs25_45.2_20.2", Payload(452, "nosuch", None, None, 512, <<>>),
                 "Failed", i - served - 1)

\* what the last HISTORY_MAXLEN of served earlier jobs left in the history
EarlierHistory(served) ==
    LET kept == IF served > HISTORY_MAXLEN THEN HISTORY_MAXLEN ELSE served
    IN  [i \in 1..kept |-> EarlierEntry(i + served - kept, served)]

InitServed ==
    \E served \in {0, HISTORY_MAXLEN - 1, HISTORY_MAXLEN} :
       /\ tasks = <<>>
       /\ history = EarlierHistory(served)
       /\ active_sessions = {}
       /\ active_sessions_info = <<>>
       /\ processing_now = None
       /\ processing_now_info = Nothing
       /\ completed_tasks = 0
       /\ failed_tasks = served
       /\ processing_time = 0
       /\ wpc = "get"
       /\ wjob = NoJob
       /\ history_status = IF served = 0 THEN None ELSE "Failed"
       /\ start_time = 0
       /\ res = IF served = 0 THEN None ELSE "falsy"
       /\ cache = <<>>
       /\ dirs = {}
       /\ files = {}
       /\ now = 0
       /\ is_public \in BOOLEAN
       /\ passed = <<>>
       /\ instances = 1 /\ workers = 1 /\ callers = Constructed
       /\ sres = [op |-> None, key |-> None, arg |-> Nothing, value |-> Nothing,
                  at |-> 0, before |-> <<>>]
       /\ aresp = None
       /\ rpc = "idle"
       /\ rkey = None
       /\ rendpoint = None
       /\ ranswer = NoAnswer
       /\ nretr = 0
       /\ jlog = <<>>

SpecHistory == InitServed /\ [][NextExec]_vars

\* the worker is a daemon thread of its own (tasks.py 81-82): the scheduler
\* keeps running it, and tasks.get() returns once a job is in the queue
Worker ==
    \/ WorkerGet
    \/ WorkerMark
    \/ WorkerUnqueue
    \/ WorkerCallTaskGeneration
    \/ WorkerAfter
    \/ WorkerDiscard
    \/ WorkerClear
    \/ WorkerRecord

SpecExecLive == Init /\ [][NextExec]_vars /\ WF_vars(Worker)

(***************************************************************************)
(* The queue and the worker with the callers map_generation,               *)
(* dtm_generation and texture_generation, and a worker that the scheduler  *)
(* keeps running.                                                          *)
(***************************************************************************)
NextQueue ==
    \/ MapGenerationRejected
    \/ \E payload \in Payloads : MapGeneration(payload)
    \/ \E payload \in Payloads : DtmGeneration(payload)
    \/ \E payload \in Payloads : TextureGeneration(payload)
    \/ AddTaskReturn
    \/ WorkerGet
    \/ WorkerMark
    \/ WorkerUnqueue
    \/ WorkerCallTaskGeneration
    \/ WorkerCallNotCallable
    \/ WorkerAfter
    \/ WorkerDiscard
    \/ WorkerClear
    \/ WorkerRecord

\* every step of the worker thread; a job function that is called returns or
\* raises
WorkerThread == Worker \/ WorkerCallNotCallable

SpecQueueLive == Init /\ [][NextQueue]_vars /\ WF_vars(WorkerThread)

(***************************************************************************)
(* The same queue and worker, started in a state in which the worker has   *)
(* completed one earlier job that took one tick (0.1 minutes) and whose    *)
(* archive a 'get' request has fetched: the background remove_entry has    *)
(* taken its entry and its directory, the archive beside the directory is  *)
(* left.  The average processing time is then above zero.                  *)
(***************************************************************************)
WorkedPayload == Payload(452, "srtm30", None, None, 512, <<>>)

InitWorked ==
    /\ tasks = <<>>
    /\ history = <<HistoryEntry(get_session_name_from_payload(WorkedPayload),
                                WorkedPayload, "Completed", 0)>>
    /\ active_sessions = {}
    /\ active_sessions_info = <<>>
    /\ processing_now = None
    /\ processing_now_info = Nothing
    /\ completed_tasks = 1
    /\ failed_tasks = 0
    /\ processing_time = seconds_to_minutes(1)
    /\ wpc = "get"
    /\ wjob = NoJob
    /\ history_status = "Completed"
    /\ start_time = 0
    /\ res = "truthy"
    /\ cache = <<>>
    /\ dirs = {}
    /\ files = {ArchivePath(get_session_name_from_payload(WorkedPayload))}
    /\ now = 0
    /\ is_public \in BOOLEAN
    /\ passed = <<>>
    /\ instances = 1 /\ workers = 1 /\ callers = Constructed
    /\ sres = [op |-> None, key |-> None, arg |-> Nothing, value |-> Nothing,
               at |-> 0, before |-> <<>>]
    /\ aresp = None
    /\ rpc = "idle"
    /\ rkey = None
    /\ rendpoint = None
    /\ ranswer = NoAnswer
    /\ nretr = 0
    /\ jlog = <<>>

SpecWorked == InitWorked /\ [][NextExec]_vars

(***************************************************************************)
(* The first calls of TasksQueue(), Singleton.__call__ (config.py 149-152), *)
(* made from request threads: no TasksQueue() call is made at import time  *)
(* or at startup, the handlers are plain defs run in the server's thread   *)
(* pool, and __call__ takes no lock.                                       *)
(***************************************************************************)
\* line 150: if cls not in cls._instances
SingletonCheck(t) ==
    /\ callers[t].pc = "call"
    /\ callers' = [callers EXCEPT ![t].pc = IF instances = 0 THEN "construct" ELSE "return"]
    /\ UNCHANGED <<qvars, wvars, svars, now, is_public, passed, instances, workers,
                   sres, aresp, rvars, jlog>>

\* line 151, right-hand side: super().__call__() runs TasksQueue.__init__,
\* which starts a worker thread (tasks.py 81-82)
SingletonConstruct(t) ==
    /\ callers[t].pc = "construct"
    /\ workers' = workers + 1
    /\ callers' = [callers EXCEPT ![t].pc = "store", ![t].made = workers + 1]
    /\ UNCHANGED <<qvars, wvars, svars, now, is_public, passed, instances,
                   sres, aresp, rvars, jlog>>

\* line 151, the assignment to cls._instances[cls]
SingletonStore(t) ==
    /\ callers[t].pc = "store"
    /\ instances' = callers[t].made
    /\ callers' = [callers EXCEPT ![t].pc = "return"]
    /\ UNCHANGED <<qvars, wvars, svars, now, is_public, passed, workers,
                   sres, aresp, rvars, jlog>>

\* line 152: return cls._instances[cls]
SingletonReturn(t) ==
    /\ callers[t].pc = "return"
    /\ callers' = [callers EXCEPT ![t].pc = "done", ![t].got = instances]
    /\ UNCHANGED <<qvars, wvars, svars, now, is_public, passed, instances, workers,
                   sres, aresp, rvars, jlog>>

\* the process before the first call of TasksQueue()
InitProcess ==
    /\ tasks = <<>>
    /\ history = <<>>
    /\ active_sessions = {}
    /\ active_sessions_info = <<>>
    /\ processing_now = None
    /\ processing_now_info = Nothing
    /\ completed_tasks = 0
    /\ failed_tasks = 0
    /\ processing_time = 0
    /\ wpc = "get"
    /\ wjob = NoJob
    /\ history_status = None
    /\ start_time = 0
    /\ res = None
    /\ cache = <<>>
    /\ dirs = {}
    /\ files = {}
    /\ now = 0
    /\ is_public \in BOOLEAN
    /\ passed = <<>>
    /\ instances = 0 /\ workers = 0
    /\ callers = [t \in Callers |-> [pc |-> "call", made |-> 0, got |-> 0]]
    /\ sres = [op |-> None, key |-> None, arg |-> Nothing, value |-> Nothing,
               at |-> 0, before |-> <<>>]
    /\ aresp = None
    /\ rpc = "idle"
    /\ rkey = None
    /\ rendpoint = None
    /\ ranswer = NoAnswer
    /\ nretr = 0
    /\ jlog = <<>>

NextSingleton ==
    \/ \E t \in Callers : SingletonCheck(t)
    \/ \E t \in Callers : SingletonConstruct(t)
    \/ \E t \in Callers : SingletonStore(t)
    \/ \E t \in Callers : SingletonReturn(t)

SpecSingleton == InitProcess /\ [][NextSingleton]_vars

(***************************************************************************)
(* Concurrent map_generation requests.  The handler is a plain def, which  *)
(* the server runs in a thread pool: the limit check (map.py 34-40) and    *)
(* the add_task call (map.py 44-52) of one request are two steps, and      *)
(* steps of other requests and of the worker come between them.            *)
(***************************************************************************)
\* map.py 34-42: the request is not refused
MapGenerationCheck(payload) ==
    /\ Len(jlog) + Len(passed) < MaxRequests
    /\ ~(is_public /\ get_active_tasks_count >= PUBLIC_QUEUE_LIMIT)
    /\ passed' = Append(passed, payload)
    /\ UNCHANGED <<qvars, wvars, svars, now, is_public, cvars, sres, aresp, rvars, jlog>>

\* map.py 44-58 of one of the requests that are past the check
MapGenerationAddTask ==
    /\ \E i \in 1..Len(passed) :
          /\ add_task(get_session_name_from_payload(passed[i]), "task_generation",
                      passed[i])
          /\ passed' = RemoveAt(passed, i)
    /\ aresp' = "200"
    /\ UNCHANGED <<history, processing_now, processing_now_info, completed_tasks,
                   failed_tasks, processing_time, wvars, svars, now, is_public, cvars,
                   sres, rvars>>

NextAdmission ==
    \/ MapGenerationRejected
    \/ \E payload \in Payloads : MapGenerationCheck(payload)
    \/ MapGenerationAddTask
    \/ WorkerGet
    \/ WorkerMark
    \/ WorkerUnqueue
    \/ WorkerCallTaskGeneration
    \/ WorkerAfter
    \/ WorkerDiscard
    \/ WorkerClear
    \/ WorkerRecord

SpecAdmission == Init /\ [][NextAdmission]_vars

(***************************************************************************)
(* Storage alone (storage.py 41-105), its interface called with keys and   *)
(* entries as the jobs produce them, while the clock runs.  A job that     *)
(* stores an entry naming a directory has created that directory           *)
(* (tasks.py 436-437).                                                     *)
(***************************************************************************)
StorageKeys == Sessions \cup {get_session_name(0, 0, "fs22")}

StorageEntries(key) ==
    { StorageEntry(TRUE, <<"Task completed successfully.">>, key, ArchivePath(key),
                   <<key>>),
      StorageEntry(FALSE, <<"Task failed with error:", "generator">>, key, NonePath,
                   <<>>),
      StorageEntry(FALSE, <<"Task failed with error:", "DTM provider with code",
                            "nosuch", "not found.">>, None, NonePath, <<>>) }

\* list(cache.keys()): the keys of the links that have not expired, oldest first
LiveKeys(c, t) ==
    LET live == CacheExpire(c, t) IN [i \in 1..Len(live) |-> live[i].key]

StorageCall(op, key, arg, value) ==
    [op |-> op, key |-> key, arg |-> arg, value |-> value,
     at |-> now, before |-> LiveKeys(cache, now)]

StorageAddEntry ==
    \E key \in StorageKeys : \E entry \in StorageEntries(key) :
       LET made == IF entry.directory # None THEN dirs \cup {entry.directory} ELSE dirs
           stored == add_entry(cache, made, key, entry, now)
       IN  /\ cache' = stored.cache
           /\ dirs' = stored.dirs
           /\ sres' = StorageCall("add_entry", key, Some(entry), Nothing)
           /\ UNCHANGED <<qvars, wvars, files, now, is_public, passed, cvars, aresp, rvars, jlog>>

StorageGetEntry ==
    \E key \in StorageKeys :
       /\ sres' = StorageCall("get_entry", key, Nothing, get_entry(cache, key, now))
       /\ UNCHANGED <<qvars, wvars, svars, now, is_public, passed, cvars, aresp, rvars, jlog>>

StoragePopEntry ==
    \E key \in StorageKeys :
       LET popped == pop_entry(cache, dirs, key, now)
       IN  /\ cache' = popped.cache
           /\ dirs' = popped.dirs
           /\ sres' = StorageCall("pop_entry", key, Nothing, popped.value)
           /\ UNCHANGED <<qvars, wvars, files, now, is_public, passed, cvars, aresp, rvars, jlog>>

StorageRemoveEntry ==
    \E key \in StorageKeys :
       LET removed == remove_entry(cache, dirs, key, now)
       IN  /\ cache' = removed.cache
           /\ dirs' = removed.dirs
           /\ sres' = StorageCall("remove_entry", key, Nothing, Nothing)
           /\ UNCHANGED <<qvars, wvars, files, now, is_public, passed, cvars, aresp, rvars, jlog>>

NextStorage ==
    \/ StorageAddEntry
    \/ StorageGetEntry
    \/ StoragePopEntry
    \/ StorageRemoveEntry
    \/ Tick(MaxStorageTime)

SpecStorage == Init /\ [][NextStorage]_vars

(***************************************************************************)
(* Properties.                                                             *)
(***************************************************************************)
Jobs == 1..Len(jlog)

\* the worker's finalizer for job j has run to its end
Finalized(j) == jlog[j].terminal >= 1

\* C1: every job run through task_generation has, once the worker's
\* finalizer for it has run, stored exactly one entry, under the job's own
\* session name, whether the generation succeeded or failed; and no job
\* ever stores two.
C1_ExactlyOneEntryPerJob ==
    \A j \in Jobs :
       jlog[j].func = "task_generation" =>
          /\ jlog[j].writes <= 1
          /\ Finalized(j) =>
                /\ jlog[j].writes = 1
                /\ jlog[j].entry # Nothing
                /\ jlog[j].key = jlog[j].session_name

\* a job whose generation failed has been finalized with its one entry
C1_Witness ==
    \E j \in Jobs :
       /\ jlog[j].func = "task_generation"
       /\ Finalized(j)
       /\ jlog[j].writes = 1
       /\ ~jlog[j].entry[1].success

\* C2: the identity of every job that is waiting in the queue, or that the
\* worker holds and has not yet reached its discard for, is in the Active
\* Session Set.
C2_ActiveWhileQueuedOrExecuting ==
    /\ \A i \in 1..Len(tasks) : is_in_queue(tasks[i].session_name)
    /\ wpc \in {"mark", "unqueue", "func", "after", "discard"}
          => is_in_queue(wjob.session_name)

\* C3: is_processing(identity) implies is_in_queue(identity).
C3_ProcessingImpliesActive ==
    \A session_name \in Sessions \cup {FunctionObject} :
       is_processing(session_name) => is_in_queue(session_name)

\* C4: of two jobs of one identity, the second added while the first was in
\* flight, the worker never runs both to completion.
C4_DuplicateNeverRunToCompletion ==
    \A j \in Jobs :
       jlog[j].duplicate_of # 0 =>
          ~(Finalized(jlog[j].duplicate_of) /\ Finalized(j))


\* the execution error of job j's run, as task_generation meets it
JobError(j) == ExecutionError(jlog[j].payload, is_public, jlog[j].gen)

\* C5: a job whose run meets an execution error (provider code, provider
\* settings, custom asset, public size ceiling, generator) has stored an entry
\* under its identity with success = false and a description text; the worker
\* thread is never ended by it, and every job that was added is in the end run
\* and finalized.
C5_ExecutionErrorsAreRecorded ==
    /\ [](/\ wpc # "dead"
          /\ \A j \in Jobs :
                jlog[j].runs >= 1 /\ JobError(j) # "none" =>
                   /\ jlog[j].entry # Nothing
                   /\ jlog[j].key = jlog[j].session_name
                   /\ ~jlog[j].entry[1].success
                   /\ jlog[j].entry[1].description
                         = FailureDescription(jlog[j].payload, JobError(j))
                   /\ Len(jlog[j].entry[1].description) > 0)
    /\ \A j \in 1..MaxJobs : (j \in Jobs) ~> (j \in Jobs /\ Finalized(j))

C5_Witness ==
    \E j, k \in Jobs :
       /\ j < k
       /\ jlog[j].runs = 1 /\ JobError(j) \notin {"none", "generator"}
       /\ Finalized(j) /\ ~jlog[j].entry[1].success
       /\ jlog[k].runs = 1 /\ JobError(k) = "generator" /\ Finalized(k)

\* C6: an exception that escapes the job function is fatal to that job only:
\* the worker thread does not end.
C6_WorkerStaysAlive ==
    \A j \in Jobs : res = "raised" /\ wjob.id = j /\ Finalized(j) => wpc # "dead"

\* C7: for every dequeued job, whether its function returned a truthy value,
\* a falsy value or raised, the finalizer removes the job's identity from
\* active_sessions, clears processing_now and processing_now_info, and appends
\* one history entry for the job, Completed after a truthy return and Failed
\* otherwise; no job gets a second one and no job that was run is left without.
C7_FinalizerOnEveryExit ==
    /\ [](\A j \in Jobs :
             /\ jlog[j].terminal <= 1
             /\ jlog[j].runs >= 1 /\ ~Finalized(j) =>
                   wjob.id = j /\ wpc \in {"after", "discard", "clear", "record"})
    /\ [][/\ wpc = "discard" /\ wpc' # wpc =>
                wpc' = "clear" /\ wjob.session_name \notin active_sessions'
          /\ wpc = "clear" /\ wpc' # wpc =>
                /\ wpc' = "record"
                /\ processing_now' = None /\ processing_now_info' = Nothing
          /\ wpc = "record" /\ wpc' # wpc =>
                /\ Len(history') = Len(history) + 1
                /\ history'[Len(history')].session_name = wjob.session_name
                /\ history'[Len(history')].status
                      = IF res = "truthy" THEN "Completed" ELSE "Failed"
                /\ jlog'[wjob.id].terminal = 1]_vars

C7_Witness ==
    /\ wpc = "dead" /\ res = "raised"
    /\ Len(history) = 2
    /\ history[1].status = "Completed" /\ history[2].status = "Failed"
    /\ processing_now = None /\ processing_now_info = Nothing
    /\ wjob.session_name \notin active_sessions

\* C8: a retrieval is never answered "still in the queue" while the job
\* function of a job of that identity is running.
C8_ExecutingNeverReportedQueued ==
    ranswer.status_code = 204 => ~ranswer.executing

\* C9: a retrieval is never answered with the generic not-found while a job of
\* that identity is queued or held by the worker, or an unexpired entry of it
\* is in the cache.
C9_LiveSessionNeverNotFound ==
    ranswer.status_code = 404 /\ ranswer.detail = <<"not found">> => ~ranswer.live

\* C10: whenever an entry that names a directory leaves the cache, by expiry,
\* by eviction or by removal, that directory is no longer on disk.
C10_LeavingEntryDeletesDirectory ==
    [][\A key \in StorageKeys :
          CacheContains(cache, key, now) /\ ~CacheContains(cache', key, now') =>
             LET entry == CacheGet(cache, key, now)
             IN  entry[1].directory # None => entry[1].directory \notin dirs']_vars

\* C11: once get_task has found a successful entry with get_entry and its
\* background task has consumed it with remove_entry, get_entry for the same
\* key returns None.
C11_ConsumedEntryIsAbsent ==
    [][rpc = "background" /\ ranswer.detail = <<"FileResponse">> /\ rpc' = "idle" =>
          get_entry(cache', rkey, now') = Nothing]_vars

C11_Witness ==
    /\ rpc = "idle" /\ rendpoint = "get"
    /\ ranswer.status_code = 200 /\ ranswer.detail = <<"FileResponse">>
    /\ now < STORAGE_TTL
    /\ rkey \notin dirs
    /\ get_entry(cache, rkey, now) = Nothing

Range(seq) == {seq[i] : i \in 1..Len(seq)}

C13_ReturnedUntilTTL ==
    sres.op = "add_entry" =>
       /\ now - sres.at < STORAGE_TTL => get_entry(cache, sres.key, now) = sres.arg
       /\ now - sres.at >= STORAGE_TTL => get_entry(cache, sres.key, now) = Nothing

C13_Witness ==
    /\ sres.op = "add_entry" /\ sres.at > 0
    /\ now - sres.at = STORAGE_TTL
    /\ IndexOf(cache, sres.key) # 0
    /\ get_entry(cache, sres.key, now) = Nothing
    /\ get_entry(cache, sres.key, now - 1) = sres.arg

\* the 'Added to queue' entry that add_task records for a job
AddedToQueue(job) == HistoryEntry(job.session_name, job.payload, "Added to queue", now)

C16_UnknownProviderFails ==
    \A j \in Jobs :
       (/\ jlog[j].func = "task_generation"
        /\ jlog[j].payload.dtm_code \notin DTMProviders) =>
          /\ ~jlog[j].generated
          /\ jlog[j].runs >= 1 =>
                /\ jlog[j].entry # Nothing
                /\ jlog[j].key = jlog[j].session_name
                /\ ~jlog[j].entry[1].success
                /\ jlog[j].payload.dtm_code \in Range(jlog[j].entry[1].description)
                /\ jlog[j].entry[1].file_path = NonePath
          /\ (Finalized(j) /\ ~InFlight(jlog[j].session_name)) =>
                jlog[j].session_name \notin active_sessions

C16_Witness ==
    \E j \in Jobs :
       /\ jlog[j].payload.dtm_code = "nosuch"
       /\ Finalized(j) /\ wpc = "get" /\ tasks = <<>>
       /\ jlog[j].session_name \notin active_sessions
       /\ get_entry(cache, jlog[j].session_name, now) = jlog[j].entry
       /\ "nosuch" \in Range(jlog[j].entry[1].description)

\* the answers of get_task when get_entry returned None (lines 70-87)
NotFoundDetails ==
    {<<"is currently being processed">>, <<"is still in the queue">>, <<"not found">>}

\* C17: get_entry returns None for a key that has no link or whose link has
\* expired; a get_task request whose get_entry returned None ends with 202,
\* 204 or the generic 404, and one whose get_entry returned an entry with
\* success = false ends with 400 and the entry's description, which is none of
\* the not-found answers.
C17_NotFoundDistinctFromFailed ==
    /\ [](\A key \in Sessions :
             (\/ IndexOf(cache, key) = 0
              \/ now >= cache[IndexOf(cache, key)].expires) =>
                get_entry(cache, key, now) = Nothing)
    /\ [][/\ nretr' = nretr + 1 =>
                LET entry == get_entry(cache, rkey', now)
                IN  /\ entry = Nothing => rpc' = "is_processing" /\ ranswer' = NoAnswer
                    /\ (entry # Nothing /\ ~entry[1].success) =>
                          /\ rpc' = "idle"
                          /\ ranswer'.status_code = 400
                          /\ ranswer'.detail = entry[1].description
                          /\ ranswer'.detail \notin NotFoundDetails
          /\ (rpc \in {"is_processing", "is_in_queue"} /\ rpc' = "idle") =>
                /\ ranswer'.status_code \in {202, 204, 404}
                /\ ranswer'.detail \in NotFoundDetails]_vars

C17_Witness ==
    /\ rpc = "idle" /\ nretr = 1
    /\ ranswer.status_code = 400
    /\ get_entry(cache, rkey, now) # Nothing
    /\ ranswer.detail = get_entry(cache, rkey, now)[1].description

\* C18: a map_generation request that is answered 429 was made in public mode
\* with PUBLIC_QUEUE_LIMIT or more active sessions, and leaves the job queue,
\* active_sessions and active_sessions_info as they were; while the count is
\* at or above the limit in public mode, no map_generation request adds a job.
C18_RejectedIsNeverEnqueued ==
    [][/\ (aresp # "429" /\ aresp' = "429") =>
             /\ is_public /\ get_active_tasks_count >= PUBLIC_QUEUE_LIMIT
             /\ UNCHANGED <<tasks, active_sessions, active_sessions_info, jlog>>
       /\ (is_public /\ get_active_tasks_count >= PUBLIC_QUEUE_LIMIT) =>
             /\ Len(jlog') = Len(jlog)
             /\ Len(tasks') <= Len(tasks)
             /\ active_sessions' \subseteq active_sessions
             /\ Len(active_sessions_info') <= Len(active_sessions_info)]_vars

C18_Witness ==
    /\ aresp = "429" /\ is_public
    /\ get_active_tasks_count = PUBLIC_QUEUE_LIMIT
    /\ Len(tasks) = PUBLIC_QUEUE_LIMIT
    /\ Len(active_sessions_info) = PUBLIC_QUEUE_LIMIT
    /\ Len(jlog) = PUBLIC_QUEUE_LIMIT

\* C19: the worker takes the jobs in the order add_task put them on the queue,
\* one after the other with none skipped, and the terminal entries of history
\* are in that same order: the k-th entry is that of the k-th job added.
C19_FifoOrder ==
    /\ [](/\ \A i \in 1..Len(tasks) : tasks[i].id = wjob.id + i
          /\ wjob.id + Len(tasks) = Len(jlog)
          /\ \A j \in Jobs : jlog[j].gets >= 1 <=> j <= wjob.id
          /\ \A k \in 1..Len(history) :
                /\ Finalized(k)
                /\ history[k].session_name = jlog[k].session_name
                /\ history[k].status \in {"Completed", "Failed"}
          /\ \A j \in Jobs : Finalized(j) <=> j <= Len(history))
    /\ [][wjob' # wjob => wjob' = Head(tasks) /\ wjob'.id = wjob.id + 1]_vars

C19_Witness ==
    /\ Len(history) = 2
    /\ jlog[1].session_name # jlog[2].session_name
    /\ history[1].session_name = jlog[1].session_name
    /\ history[2].session_name = jlog[2].session_name

\* C20: no job is taken from the queue twice, run twice, or back on the queue
\* once it was taken; and no job is left on the queue of a worker that has
\* stopped taking jobs, so that every accepted job is dequeued.
C20_DequeuedExactlyOnce ==
    /\ \A j \in Jobs :
          /\ jlog[j].gets <= 1
          /\ jlog[j].runs <= jlog[j].gets
          /\ jlog[j].gets = 1 => \A i \in 1..Len(tasks) : tasks[i].id # j
          /\ jlog[j].gets = 0 => \E i \in 1..Len(tasks) : tasks[i].id = j
    /\ wpc = "dead" => \A j \in Jobs : jlog[j].gets = 1

\* C22: in every state of the cache, remove_entry for a key that is not in it
\* (never added, removed, or expired) returns with the cache and the
\* directories as they were, and remove_entry applied twice to the same key
\* leaves what one application leaves.
C22_RemoveEntryIdempotent ==
    /\ [](\A key \in StorageKeys :
             LET once == remove_entry(cache, dirs, key, now)
                 twice == remove_entry(once.cache, once.dirs, key, now)
             IN  /\ twice = once
                 /\ ~CacheContains(once.cache, key, now)
                 /\ ~CacheContains(cache, key, now) =>
                       once = [cache |-> cache, dirs |-> dirs])
    /\ [][(/\ sres' # sres
           /\ sres'.op = "remove_entry"
           /\ sres'.key \notin Range(sres'.before)) =>
             UNCHANGED <<cache, dirs>>]_vars

C22_Witness ==
    /\ sres.op = "remove_entry" /\ sres.at = now
    /\ sres.key \notin Range(sres.before)
    /\ IndexOf(cache, sres.key) # 0
    /\ ~CacheContains(cache, sres.key, now)

\* the jobs that the worker has taken from the queue and not yet finalized
BeingExecuted == {j \in Jobs : jlog[j].gets >= 1 /\ ~Finalized(j)}

\* C23: at most one job is taken and not yet finalized, and it is the job the
\* worker holds; processing_now is None or that job's session; the worker
\* takes a job only when every job it took before has been finalized.
C23_OneJobAtATime ==
    /\ [](/\ Cardinality(BeingExecuted) <= 1
          /\ \A j \in BeingExecuted :
                wjob.id = j /\ wpc \in {"mark", "unqueue", "func", "after", "discard",
                                        "clear", "record"}
          /\ processing_now # None =>
                /\ processing_now = wjob.session_name
                /\ wjob.id \in BeingExecuted
          /\ wpc \in {"unqueue", "func", "after", "discard"} =>
                processing_now = wjob.session_name)
    /\ [][wjob' # wjob => BeingExecuted = {} /\ BeingExecuted' = {wjob'.id}]_vars

C23_Witness ==
    /\ Len(jlog) = 2 /\ Finalized(1)
    /\ jlog[1].runs = 1
    /\ wjob.id = 2 /\ wpc = "func"
    /\ BeingExecuted = {2}
    /\ processing_now = jlog[2].session_name
    /\ jlog[1].session_name # jlog[2].session_name

\* the status of job j as the queue shows it: queued from add_task (lines
\* 96-107) until the worker has set processing_now for it (line 259),
\* processing until the entry of lines 307-317 is appended, terminal after
JobStatus(j) ==
    IF Finalized(j) THEN "terminal"
    ELSE IF wjob.id = j /\ wpc \in {"unqueue", "func", "after", "discard", "clear", "record"}
         THEN "processing"
         ELSE "queued"

\* the number of positions of seq that hold an element of session s
CountOf(seq, s) == Cardinality({i \in 1..Len(seq) : seq[i].session_name = s})

\* C24: a job starts queued, the only transitions are queued to processing
\* and processing to terminal, the terminal transition appends one entry
\* whose status is Completed or Failed, and a terminal job is not on the
\* queue, is not taken again and has no further transition.
C24_StatusLifecycle ==
    /\ [](\A j \in Jobs :
            /\ JobStatus(j) = "queued" =>
                  /\ jlog[j].runs = 0
                  /\ \/ \E i \in 1..Len(tasks) : tasks[i].id = j
                     \/ wjob.id = j /\ wpc = "mark"
                  /\ \E i \in 1..Len(active_sessions_info) :
                        /\ active_sessions_info[i].session_name = jlog[j].session_name
                        /\ active_sessions_info[i].status = "Added to queue"
            /\ JobStatus(j) = "processing" =>
                  /\ jlog[j].gets = 1
                  /\ wpc \in {"unqueue", "func", "after", "discard", "clear"} =>
                        /\ processing_now = jlog[j].session_name
                        /\ processing_now_info # Nothing
                        /\ processing_now_info[1].status = "Started processing"
            /\ JobStatus(j) = "terminal" =>
                  /\ jlog[j].gets = 1 /\ jlog[j].terminal = 1
                  /\ \A i \in 1..Len(tasks) : tasks[i].id # j
                  /\ wjob.id = j => wpc \in {"get", "dead"})
    /\ [][\A j \in 1..Len(jlog') :
            IF j > Len(jlog) THEN JobStatus(j)' = "queued"
            ELSE \/ JobStatus(j)' = JobStatus(j)
                 \/ JobStatus(j) = "queued" /\ JobStatus(j)' = "processing"
                 \/ /\ JobStatus(j) = "processing" /\ JobStatus(j)' = "terminal"
                    /\ Len(history') = Len(history) + 1
                    /\ history'[Len(history')].session_name = jlog[j].session_name
                    /\ history'[Len(history')].status \in {"Completed", "Failed"}
                    /\ \A i \in 1..Len(history) : history'[i] = history[i]]_vars
    /\ [][\A j \in Jobs : Finalized(j) => jlog'[j] = jlog[j]]_vars

C24_Witness ==
    /\ Len(jlog) = 2
    /\ JobStatus(1) = "terminal" /\ JobStatus(2) = "terminal"
    /\ Len(history) = 2
    /\ history[1].status = "Completed" /\ history[2].status = "Failed"

\* C25: when the worker is about to invoke the job function of the job it
\* took, processing_now is the job's identity, processing_now_info is a
\* 'Started processing' entry of it, the job's 'Added to queue' entry is gone
\* from active_sessions_info (what is left are the entries of the jobs still
\* on the queue), and the identity is in the Active Session Set.
C25_ProcessingBeforeInvoked ==
    wpc = "func" =>
       /\ jlog[wjob.id].gets = 1 /\ jlog[wjob.id].runs = 0
       /\ is_processing(wjob.session_name)
       /\ processing_now_info # Nothing
       /\ processing_now_info[1].session_name = wjob.session_name
       /\ processing_now_info[1].status = "Started processing"
       /\ \A s \in Sessions \cup {FunctionObject} :
             CountOf(active_sessions_info, s) = CountOf(tasks, s)
       /\ wjob.session_name \in active_sessions

\* C26: the history never holds more than HISTORY_MAXLEN entries; an append
\* to a full history drops its oldest entry and puts the new one last, an
\* append to a history that is not full only adds the new entry, and the
\* entries that stay are the entries they were.
C26_BoundedHistory ==
    /\ [](Len(history) <= HISTORY_MAXLEN)
    /\ [][history' # history =>
            LET new == history'[Len(history')]
            IN  /\ new.status \in {"Completed", "Failed"}
                /\ IF Len(history) = HISTORY_MAXLEN
                   THEN /\ history' = Append(Tail(history), new)
                        /\ \A i \in 1..(HISTORY_MAXLEN - 1) : history'[i] = history[i + 1]
                   ELSE /\ history' = Append(history, new)
                        /\ \A i \in 1..Len(history) : history'[i] = history[i]]_vars

C26_Witness ==
    /\ Len(jlog) = 2 /\ Finalized(1) /\ Finalized(2)
    /\ Len(history) = HISTORY_MAXLEN
    /\ history[1] = EarlierEntry(3, HISTORY_MAXLEN)
    /\ history[HISTORY_MAXLEN - 2] = EarlierEntry(HISTORY_MAXLEN, HISTORY_MAXLEN)
    /\ history[HISTORY_MAXLEN - 1].status = "Completed"
    /\ history[HISTORY_MAXLEN].status = "Failed"

\* C27: while the worker is inside a job function, a map_generation that the
\* queue limit does not refuse can take its add_task step for any payload,
\* and an add_task past its put can return; neither step waits for or moves
\* the worker, and the step puts the new job last on the queue, queued.
C27_AdmissionNotBlocked ==
    /\ [](wpc = "func" =>
            /\ (/\ aresp # InAddTask
                /\ Len(jlog) < MaxJobs
                /\ ~(is_public /\ get_active_tasks_count >= PUBLIC_QUEUE_LIMIT)) =>
                  \A payload \in AllPayloads : ENABLED MapGeneration(payload)
            /\ aresp = InAddTask => ENABLED AddTaskReturn)
    /\ [][(wpc = "func" /\ Len(jlog') = Len(jlog) + 1) =>
            /\ UNCHANGED wvars
            /\ Len(tasks') = Len(tasks) + 1
            /\ tasks'[Len(tasks')].id = Len(jlog')
            /\ \A j \in Jobs' \ Jobs : JobStatus(j)' = "queued"
            /\ jlog'[Len(jlog')].session_name \in active_sessions'
            /\ aresp' = InAddTask]_vars
    /\ [][(wpc = "func" /\ aresp = InAddTask /\ aresp' # InAddTask) =>
            /\ UNCHANGED <<wvars, tasks>>
            /\ aresp' = "200"]_vars

\* the second job has been added and add_task has returned (the first job
\* function has not yet returned)
C27_Witness ==
    /\ wpc = "func" /\ wjob.id = 1
    /\ Len(jlog) = 2 /\ jlog[1].runs = 0
    /\ aresp = "200"
    /\ Len(tasks) = 1 /\ tasks[1].id = 2
    /\ JobStatus(2) = "queued"

\* the map size or the output size of the payload is above the public limit
Oversize(payload) ==
    \/ payload.size > PUBLIC_MAX_MAP_SIZE
    \/ payload.output_size # <<>> /\ payload.output_size[1] > PUBLIC_MAX_MAP_SIZE

\* the description of the entry is one of the two texts of lines 565-577
NamesLimit(entry) == "PUBLIC_MAX_MAP_SIZE" \in Range(entry.description)

\* the checks of task_generation that come before the size checks (lines
\* 401-489) accept the payload
PassesEarlierChecks(payload) ==
    ExecutionError(payload, FALSE, "ok") = "none"

\* C28 as stated: in public mode every job with an oversize payload that has
\* been run has stored a failed entry whose description names the limit, and
\* the generator was not run for it.
C28_OversizeFailsNamingLimit ==
    \A j \in Jobs :
       (is_public /\ Oversize(jlog[j].payload) /\ jlog[j].runs >= 1) =>
          /\ ~jlog[j].generated
          /\ jlog[j].entry # Nothing
          /\ jlog[j].key = jlog[j].session_name
          /\ ~jlog[j].entry[1].success
          /\ NamesLimit(jlog[j].entry[1])

\* C28, amended: in public mode every job with an oversize payload that has
\* been run has stored a failed entry and the generator was not run for it;
\* the description names the limit when the checks that come before the size
\* checks accept the payload, and otherwise it is the text of the first of
\* those checks that refused it.
C28_OversizeFails ==
    \A j \in Jobs :
       (is_public /\ Oversize(jlog[j].payload) /\ jlog[j].runs >= 1) =>
          /\ ~jlog[j].generated
          /\ jlog[j].entry # Nothing
          /\ jlog[j].key = jlog[j].session_name
          /\ ~jlog[j].entry[1].success
          /\ jlog[j].entry[1].file_path = NonePath
          /\ IF PassesEarlierChecks(jlog[j].payload)
             THEN NamesLimit(jlog[j].entry[1])
             ELSE /\ ~NamesLimit(jlog[j].entry[1])
                  /\ jlog[j].entry[1].description =
                        FailureDescription(jlog[j].payload,
                                           ExecutionError(jlog[j].payload, FALSE, "ok"))

\* one job refused for its map size and one for its output size
C28_Witness ==
    /\ is_public /\ Len(jlog) = 2 /\ Finalized(1) /\ Finalized(2)
    /\ jlog[1].payload.size > PUBLIC_MAX_MAP_SIZE
    /\ jlog[2].payload.output_size = <<8192>>
    /\ NamesLimit(jlog[1].entry[1]) /\ NamesLimit(jlog[2].entry[1])
    /\ jlog[1].entry[1].description # jlog[2].entry[1].description
    /\ ~jlog[1].generated /\ ~jlog[2].generated
    /\ get_entry(cache, jlog[2].session_name, now) = jlog[2].entry
    /\ history[1].status = "Failed" /\ history[2].status = "Failed"

\* C29: every job that add_task has put on the queue is in the end taken by
\* the worker and gets its terminal history entry, and there is a moment, the
\* one after the discard of its finally clause, at which its identity is not
\* in the Active Session Set.
C29_EveryJobTerminates ==
    \A j \in 1..MaxJobs :
       /\ (j \in Jobs) ~> (j \in Jobs /\ jlog[j].gets = 1 /\ Finalized(j))
       /\ (j \in Jobs /\ jlog[j].runs = 0) ~>
             (/\ j \in Jobs /\ jlog[j].runs = 1
              /\ wjob.id = j /\ wpc = "clear"
              /\ jlog[j].session_name \notin active_sessions)

\* the number of jobs the worker is executing: the job it took, until the
\* discard of its finally clause
ExecutingCount ==
    IF wpc \in {"mark", "unqueue", "func", "after", "discard"} THEN 1 ELSE 0

\* C30: get_active_tasks_count() is the number of jobs waiting in the queue
\* plus the number of jobs being executed.
C30_CountIsQueuedPlusExecuting ==
    get_active_tasks_count = Len(tasks) + ExecutingCount

\* TasksQueue.get_queue_position (lines 152-166): the 0-based index of the
\* first entry of the session in active_sessions_info, as <<idx>>, or
\* Nothing for None
get_queue_position(session_name) ==
    IF ~is_in_queue(session_name) THEN Nothing
    ELSE LET idxs == {i \in 1..Len(active_sessions_info) :
                        active_sessions_info[i].session_name = session_name}
         IN  IF idxs = {} THEN Nothing
             ELSE Some((CHOOSE i \in idxs : \A k \in idxs : i <= k) - 1)

\* the jobs that have not been marked as processing yet, in the order in
\* which the worker takes them: the job it has just taken, then the queue
Waiting ==
    (IF wpc = "mark" THEN <<wjob>> ELSE <<>>) \o tasks

\* C31: for a session with a waiting job get_queue_position is the number of
\* waiting jobs ahead of its first waiting job; for every other session,
\* being processed or not active, it is None.
C31_QueuePosition ==
    \A s \in Sessions \cup {FunctionObject} :
       LET at == {i \in 1..Len(Waiting) : Waiting[i].session_name = s}
       IN  IF at # {}
           THEN get_queue_position(s) = Some((CHOOSE i \in at : \A k \in at : i <= k) - 1)
           ELSE get_queue_position(s) = Nothing

\* the links of the cache other than the link of key, in their order
OtherLinks(c, key) == SelectSeq(c, LAMBDA link : link.key # key)

\* C32: a step of get_task changes the cache only when it is the background
\* remove_entry of a 'get' request that was answered with the file; that
\* request found a successful entry whose file exists, and the removal takes
\* away the link of the task id, unless it has expired meanwhile, and no
\* other link.  Every other step of
\* get_task, whatever the endpoint and the answer, leaves the cache as it is.
C32_OnlyGetConsumes ==
    /\ [](rpc = "background" =>
            /\ rendpoint = "get"
            /\ ranswer.status_code = 200 /\ ranswer.detail = <<"FileResponse">>)
    /\ [][rvars' # rvars =>
            /\ rpc # "background" => cache' = cache /\ dirs' = dirs
            /\ rpc = "background" =>
                  /\ OtherLinks(cache', rkey) = OtherLinks(cache, rkey)
                  /\ get_entry(cache', rkey, now) = Nothing
                  /\ cache' \in {cache, RemoveAt(cache, IndexOf(cache, rkey))}
                  /\ dirs \ dirs' \subseteq {rkey}
                  /\ dirs' \subseteq dirs
            /\ rpc' = "background" =>
                  LET entry == get_entry(cache, rkey', now)
                  IN  /\ rpc = "idle" /\ rendpoint' = "get"
                      /\ entry # Nothing
                      /\ entry[1].success
                      /\ entry[1].file_path \in files]_vars

\* a 'previews' request answered with the previews of a successful entry,
\* the entry still cached
C32_Witness ==
    /\ rpc = "idle" /\ rendpoint = "previews"
    /\ ranswer.status_code = 200 /\ ranswer.detail = <<"previews">>
    /\ get_entry(cache, rkey, now) # Nothing
    /\ get_entry(cache, rkey, now)[1].success
    /\ rkey \in dirs

\* C33: in public mode the number of jobs waiting in the queue plus the job
\* the worker is executing never exceeds PUBLIC_QUEUE_LIMIT.
C33_QueueLimitHolds ==
    is_public => Len(tasks) + ExecutingCount <= PUBLIC_QUEUE_LIMIT

\* C34: when add_task accepts a job for a session, no entry of an earlier job
\* is left in the cache under that session; and a get_task that answers for a
\* session whose latest job is queued or held by the worker and has not yet
\* stored its own entry answers 'still in the queue' (204) or 'being
\* processed' (202), never from an entry.
C34_EarlierEntryRemovedAtAdmission ==
    /\ [][Len(jlog') = Len(jlog) + 1 =>
            get_entry(cache', jlog'[Len(jlog')].session_name, now) = Nothing]_vars
    /\ [][(/\ ranswer' # ranswer
           /\ ranswer'.status_code # 0
           /\ InFlightJob(ranswer'.task_id) # 0
           /\ jlog[InFlightJob(ranswer'.task_id)].writes = 0) =>
             ranswer'.status_code \in {202, 204}]_vars

\* C35: every identity in the Active Session Set has a job that is waiting
\* in the queue or held by the worker; an add_task call that raises before
\* its put leaves the set as it was.
C35_ActiveOnlyWhileInFlight ==
    /\ [](\A s \in active_sessions : InFlight(s))
    /\ [][(aresp' = "500" /\ Len(jlog') = Len(jlog)) =>
            active_sessions' = active_sessions]_vars

\* round(a / b, 1) for a in tenths and b a positive count: the nearest
\* number of tenths
RoundedQuotient(a, b) == (2 * a + b) \div (2 * b)

\* TasksQueue.average_processing_time (lines 127-135), in tenths of a minute
average_processing_time ==
    IF completed_tasks = 0 THEN 0 ELSE RoundedQuotient(processing_time, completed_tasks)

\* the sum of the elapsed times recorded for the first n jobs that are finalized
RECURSIVE RecordedTime(_)
RecordedTime(n) ==
    IF n = 0 THEN 0
    ELSE RecordedTime(n - 1) + (IF Finalized(n) THEN jlog[n].elapsed ELSE 0)

\* C36: processing_time is the sum of the elapsed times of the finalized
\* jobs, average_processing_time() is that sum divided by their number,
\* rounded, and 0 when there is none, and it is not greater than the largest
\* of these elapsed times.
C36_AverageIsMean ==
    LET counted == {j \in Jobs : Finalized(j)}
    IN  /\ processing_time = RecordedTime(Len(jlog))
        /\ average_processing_time =
              IF counted = {} THEN 0
              ELSE RoundedQuotient(processing_time, Cardinality(counted))
        /\ \A j \in counted :
              (\A k \in counted : jlog[k].elapsed <= jlog[j].elapsed) =>
                 average_processing_time <= jlog[j].elapsed

\* TasksQueue.wait_in_queue (lines 137-150), position <<n>> or Nothing for
\* None: 'position or count' is the count for None and for position 0
wait_in_queue(position) ==
    LET active_tasks == IF position = Nothing \/ position[1] = 0
                        THEN get_active_tasks_count
                        ELSE position[1]
    IN  active_tasks * average_processing_time

\* TasksQueue.get_session_queue_status (lines 168-182)
get_session_queue_status(session_name) ==
    LET in_queue == is_in_queue(session_name)
        position == IF in_queue THEN get_queue_position(session_name) ELSE Nothing
    IN  [in_queue |-> in_queue,
         processing |-> is_processing(session_name),
         position |-> position,
         estimated_wait |-> IF in_queue THEN wait_in_queue(position) ELSE 0]

\* C37: of two sessions that have a queue position, the one with the smaller
\* position is not given the greater estimated wait.
C37_WaitGrowsWithPosition ==
    \A a, b \in Sessions :
       LET sa == get_session_queue_status(a)
           sb == get_session_queue_status(b)
       IN  (/\ sa.position # Nothing /\ sb.position # Nothing
            /\ sa.position[1] < sb.position[1]) =>
              sa.estimated_wait <= sb.estimated_wait

\* C38: at most one TasksQueue is constructed, so at most one worker thread
\* is started, and all calls of TasksQueue() that have returned have
\* returned the same instance.
C38_OneInstanceOneWorker ==
    /\ workers <= 1
    /\ \A t, u \in Callers :
          (callers[t].pc = "done" /\ callers[u].pc = "done") =>
             callers[t].got = callers[u].got

====
